---- MODULE Spec2Model ----
(***************************************************************************)
(* Model of endpoints/v2/__init__.py of the registry: the repository       *)
(* permission decorators (require_repo_read / write / admin) and the two   *)
(* pagination decorators (paginate, oci_tag_paginate).                     *)
(*                                                                         *)
(* Optional values (Python None / a value) are sequences of length 0 / 1.  *)
(* Query-string values are sequences of one-character strings.             *)
(***************************************************************************)
EXTENDS Integers, Sequences, FiniteSets, TLC

VARIABLES features, config, request, kwargs, response, fetched, pc

vars == <<features, config, request, kwargs, response, fetched, pc>>

None == <<>>

Some(x) == <<x>>

Val(o) == o[1]

(***************************************************************************)
(* Bounds of the model.                                                    *)
(***************************************************************************)
MaxLen == 3

MaxCbLen == 1

MaxNameLen == 3

MaxResults == 3

MaxId == 3

(***************************************************************************)
(* Process-wide configuration: feature flags and app.config.               *)
(***************************************************************************)
Features == [RESTRICTED_USERS : BOOLEAN, ANONYMOUS_ACCESS : BOOLEAN,
             SUPERUSERS_FULL_ACCESS : BOOLEAN, SUPER_USERS : BOOLEAN]

PageSizes == {None, Some(50), Some(160)}

PermConfigs == [V2_PAGINATION_SIZE : {None}, GLOBAL_READONLY_SUPER_USERS : BOOLEAN]

DefaultPageSize == 100

Max(a, b) == IF a >= b THEN a ELSE b

Min(a, b) == IF a <= b THEN a ELSE b

\* _MAX_RESULTS_PER_PAGE = max(app.config.get("V2_PAGINATION_SIZE", 100), 100)
MAX_RESULTS_PER_PAGE(cfg) ==
    Max(IF cfg.V2_PAGINATION_SIZE = None THEN DefaultPageSize
        ELSE Val(cfg.V2_PAGINATION_SIZE), DefaultPageSize)

(***************************************************************************)
(* The permission check.                                                   *)
(***************************************************************************)
Names == {"alice", "bob"}

RepoNames == {"app"}

Users == [username : Names, is_restricted_user : BOOLEAN, is_superuser : BOOLEAN,
          is_global_readonly_superuser : BOOLEAN]

\* get_authenticated_context(): no context, a context without a user, or a
\* context of an authenticated user.
Contexts == {None} \cup {Some([authed_user |-> None])}
              \cup {Some([authed_user |-> Some(u)]) : u \in Users}

\* registry_model.lookup_repository(): not found, or a repository reference.
RepositoryRefs == {None} \cup {Some(r) : r \in [is_public : BOOLEAN, kind : {"image", "application"}]}

\* The exceptions of endpoints.v2.errors as raised here, and the handler call.
Unauthorized(detail, repository, scopes) ==
    [kind |-> "Unauthorized", detail |-> detail, repository |-> repository, scopes |-> scopes]

Unsupported(detail) ==
    [kind |-> "Unsupported", detail |-> detail, repository |-> None, scopes |-> None]

Allow == [kind |-> "allow", detail |-> None, repository |-> None, scopes |-> None]

\* context is not None and context.authed_user is not None
has_authed_user(context) == context /= None /\ Val(context).authed_user /= None

authed_user(context) == Val(Val(context).authed_user)

\* Lines 190-198: the public branch of the restricted-users block.
restricted_public_check(f, repository_ref) ==
    IF repository_ref = None \/ ~Val(repository_ref).is_public
    THEN Unauthorized(None, None, None)
    ELSE IF ~f.ANONYMOUS_ACCESS
    THEN Unauthorized(None, None, None)
    ELSE Allow

restricted_user_denied_m(context, namespace_name) ==
    /\ has_authed_user(context)
    /\ authed_user(context).username = namespace_name
    /\ authed_user(context).is_restricted_user
    /\ authed_user(context).is_superuser

\* Lines 200-211: a restricted, non-superuser caller on their own namespace.
restricted_user_denied(context, namespace_name) ==
    /\ has_authed_user(context)
    /\ authed_user(context).username = namespace_name
    /\ authed_user(context).is_restricted_user
    /\ ~authed_user(context).is_superuser

\* Lines 219-224: superusers' extra permissions.
superuser_override(f, allow_for_superuser, context) ==
    /\ f.SUPERUSERS_FULL_ACCESS /\ allow_for_superuser
    /\ has_authed_user(context)
    /\ authed_user(context).is_superuser

\* Lines 246-253: the global read-only superuser grant.
global_readonly_grant(f, cfg, context) ==
    /\ f.SUPER_USERS /\ cfg.GLOBAL_READONLY_SUPER_USERS
    /\ has_authed_user(context)
    /\ authed_user(context).is_global_readonly_superuser

unsupported_msg(kind) ==
    "This repository is for managing " \o kind \o " and not container images."

public_fallback_m(f, cfg, context, repository, scopes, repository_ref) ==
    IF repository_ref = None \/ ~Val(repository_ref).is_public
    THEN Unauthorized(None, Some(repository), Some(scopes))
    ELSE IF ~f.ANONYMOUS_ACCESS
    THEN Unauthorized(None, Some(repository), Some(scopes))
    ELSE IF Val(repository_ref).kind /= "image"
    THEN Unsupported(Some(unsupported_msg(Val(repository_ref).kind)))
    ELSE Allow

public_fallback_noanon(f, cfg, context, repository, scopes, repository_ref) ==
    IF repository_ref = None \/ ~Val(repository_ref).is_public
    THEN Unauthorized(None, Some(repository), Some(scopes))
    ELSE IF Val(repository_ref).kind /= "image"
    THEN Unsupported(Some(unsupported_msg(Val(repository_ref).kind)))
    ELSE Allow

\* Lines 227-255: the allow_public block and the final denial.
public_fallback(f, cfg, context, repository, scopes, repository_ref) ==
    IF repository_ref = None \/ ~Val(repository_ref).is_public
    THEN Unauthorized(None, Some(repository), Some(scopes))
    ELSE IF Val(repository_ref).kind /= "image"
    THEN Unsupported(Some(unsupported_msg(Val(repository_ref).kind)))
    ELSE IF Val(repository_ref).is_public
    THEN IF ~f.ANONYMOUS_ACCESS
         THEN Unauthorized(None, Some(repository), Some(scopes))
         ELSE Allow
    ELSE IF global_readonly_grant(f, cfg, context)
    THEN Allow
    ELSE Unauthorized(None, Some(repository), Some(scopes))

\* Lines 213-255: the normal permissions, after the restricted-users block.
normal_permissions(f, cfg, scopes, allow_public, allow_for_superuser, r) ==
    IF r.can
    THEN Allow
    ELSE IF superuser_override(f, allow_for_superuser, r.context)
    THEN Allow
    ELSE IF allow_public
    THEN public_fallback(f, cfg, r.context, r.namespace_name \o "/" \o r.repo_name,
                         scopes, r.repository_ref)
    ELSE Unauthorized(None, Some(r.namespace_name \o "/" \o r.repo_name), Some(scopes))

\* Lines 174-261: _require_repo_permission(...)(...)(func)(namespace_name, repo_name).
require_repo_permission(f, cfg, scopes, allow_public, allow_for_superuser, disallow_for_restricted_users, r) ==
    IF f.RESTRICTED_USERS /\ disallow_for_restricted_users
    THEN IF allow_public
         THEN restricted_public_check(f, r.repository_ref)
         ELSE IF restricted_user_denied(r.context, r.namespace_name)
         THEN Unauthorized(Some("Disallowed for restricted users."), None, None)
         ELSE normal_permissions(f, cfg, scopes, allow_public, allow_for_superuser, r)
    ELSE normal_permissions(f, cfg, scopes, allow_public, allow_for_superuser, r)

\* Lines 264-270: the three decorators the endpoints use.
Levels == {"read", "write", "admin"}

\* One call of a decorated endpoint: path parameters, the caller, what
\* permission.can() and the repository lookup answer, and the decorator's options.
PermissionRequests ==
    [endpoint : {"repo"}, level : Levels, allow_for_superuser : BOOLEAN,
     disallow_for_restricted_users : BOOLEAN, namespace_name : Names,
     repo_name : RepoNames, context : Contexts, can : BOOLEAN,
     repository_ref : RepositoryRefs]

NoRequest == [endpoint |-> "none"]

NoKwargs == [kind |-> "none"]

NoHeaders == [Link |-> None]

InitPerm ==
    /\ features \in Features
    /\ config \in PermConfigs
    /\ request = NoRequest
    /\ kwargs = NoKwargs
    /\ response = NoHeaders
    /\ fetched = [results |-> <<>>, has_more |-> FALSE]
    /\ pc = "idle"

\* The decorated endpoint is called: the check either calls the handler or raises.
require_repo_read ==
    /\ pc = "idle"
    /\ \E r \in PermissionRequests :
         /\ r.level = "read"
         /\ request' = r
         /\ kwargs' = require_repo_permission(features, config, <<"pull">>, TRUE,
                          r.allow_for_superuser, r.disallow_for_restricted_users, r)
    /\ pc' = "checked"
    /\ UNCHANGED <<features, config, response, fetched>>

require_repo_write ==
    /\ pc = "idle"
    /\ \E r \in PermissionRequests :
         /\ r.level = "write"
         /\ request' = r
         /\ kwargs' = require_repo_permission(features, config, <<"pull", "push">>, FALSE,
                          r.allow_for_superuser, r.disallow_for_restricted_users, r)
    /\ pc' = "checked"
    /\ UNCHANGED <<features, config, response, fetched>>

require_repo_admin ==
    /\ pc = "idle"
    /\ \E r \in PermissionRequests :
         /\ r.level = "admin"
         /\ request' = r
         /\ kwargs' = require_repo_permission(features, config, <<"pull", "push">>, FALSE,
                          r.allow_for_superuser, r.disallow_for_restricted_users, r)
    /\ pc' = "checked"
    /\ UNCHANGED <<features, config, response, fetched>>

NextPerm == require_repo_read \/ require_repo_write \/ require_repo_admin

SpecPerm == InitPerm /\ [][NextPerm]_vars

(***************************************************************************)
(* Query-string values and their parsing.                                  *)
(***************************************************************************)
Digits == {"0", "1", "6"}

NChars == Digits \cup {"-", " ", "x"}

NameChars == {"a", " "}

SeqsUpTo(S, n) == UNION {[1..k -> S] : k \in 0..n}

\* str.strip(): drop leading and trailing whitespace.
RECURSIVE strip(_)
strip(s) ==
    IF s = <<>> THEN s
    ELSE IF Head(s) = " " THEN strip(Tail(s))
    ELSE IF s[Len(s)] = " " THEN strip(SubSeq(s, 1, Len(s) - 1))
    ELSE s

IsDigits(s) == Len(s) > 0 /\ \A i \in 1..Len(s) : s[i] \in Digits

DigitVal(c) == IF c = "0" THEN 0 ELSE IF c = "1" THEN 1 ELSE 6

RECURSIVE Decimal(_)
Decimal(s) ==
    IF s = <<>> THEN 0
    ELSE 10 * Decimal(SubSeq(s, 1, Len(s) - 1)) + DigitVal(s[Len(s)])

\* Python int(str): surrounding whitespace is ignored, an optional sign, then
\* decimal digits; anything else raises ValueError (modelled as None).
int(s) ==
    LET t == strip(s) IN
    IF IsDigits(t) THEN Some(Decimal(t))
    ELSE IF Len(t) > 1 /\ Head(t) = "-" /\ IsDigits(Tail(t)) THEN Some(0 - Decimal(Tail(t)))
    ELSE None

\* request.args.get(key, default, type=int): a value the conversion rejects
\* gives the default; the ValueError does not reach the caller.
args_get_int(arg, default) ==
    IF arg = None THEN default
    ELSE IF int(Val(arg)) = None THEN default
    ELSE Val(int(Val(arg)))

clamp_nofloor(requested_limit, max_results) == Min(requested_limit, max_results)

\* limit = max(min(requested_limit, _MAX_RESULTS_PER_PAGE), 1)
clamp(requested_limit, max_results) == Max(Min(requested_limit, max_results), 1)

(***************************************************************************)
(* Page tokens (util.pagination): an opaque wire form of a field mapping.  *)
(***************************************************************************)
encrypt_page_token(page_info) == <<"enc", page_info>>

decrypt_page_token(token) ==
    IF token = None THEN None
    ELSE IF Len(Val(token)) = 2 /\ Val(token)[1] = "enc" THEN Some(Val(token)[2])
    ELSE None

Garbage == <<"x">>

\* page_info.get("start_id", None)
page_info_start_id(page_info) ==
    IF "start_id" \in DOMAIN page_info THEN Some(page_info.start_id) ELSE None

(***************************************************************************)
(* paginate: lines 79-125.                                                 *)
(***************************************************************************)
\* Lines 91-94: int(request.args.get("n", _MAX_RESULTS_PER_PAGE)), 0 on ValueError.
paginate_requested_limit(args, max_results) ==
    IF args.n = None THEN max_results
    ELSE IF int(Val(args.n)) = None THEN 0
    ELSE Val(int(Val(args.n)))

\* Line 97: request.args.get("next_page", request.args.get("last", None))
paginate_next_page_token(args) ==
    IF args.next_page /= None THEN args.next_page ELSE args.last

\* Lines 100-103.
paginate_start_id(args) ==
    LET page_info == decrypt_page_token(paginate_next_page_token(args)) IN
    IF page_info /= None THEN page_info_start_id(Val(page_info)) ELSE None

\* Lines 90-121: the keyword arguments the handler is called with.
paginate(cfg, args) ==
    [kind |-> "handler",
     limit |-> clamp(paginate_requested_limit(args, MAX_RESULTS_PER_PAGE(cfg)),
                     MAX_RESULTS_PER_PAGE(cfg)),
     start_id |-> paginate_start_id(args)]

RECURSIVE max_id(_)
max_id(results) ==
    IF Len(results) = 1 THEN results[1].id
    ELSE Max(results[1].id, max_id(Tail(results)))

\* Lines 111-113: os.path.join(get_app_url(), url_for(request.endpoint, ...))
link_url(endpoint) == "/v2/" \o endpoint

callback_page(limit, endpoint, results, headers) ==
    IF Len(results) <= limit THEN headers
    ELSE [headers EXCEPT !.Link =
            Some([url |-> link_url(endpoint),
                  query |-> [n |-> limit,
                             next_page |-> encrypt_page_token(
                                [start_id |-> max_id(SubSeq(results, 1, limit))])],
                  rel |-> "next"])]

\* Lines 105-116: the pagination callback of paginate.
callback(limit, endpoint, results, headers) ==
    IF Len(results) <= limit THEN headers
    ELSE [headers EXCEPT !.Link =
            Some([url |-> link_url(endpoint),
                  query |-> [n |-> limit,
                             next_page |-> encrypt_page_token([start_id |-> max_id(results)])],
                  rel |-> "next"])]

(***************************************************************************)
(* oci_tag_paginate: lines 128-171.                                        *)
(***************************************************************************)
\* Lines 141-151 and 164-165.
oci_tag_paginate(cfg, args) ==
    LET requested_limit == args_get_int(args.n, MAX_RESULTS_PER_PAGE(cfg))
        last_tag_name == args.last
    IN [kind |-> "handler",
        limit |-> clamp(requested_limit, MAX_RESULTS_PER_PAGE(cfg)),
        last_pagination_tag_name |->
            IF last_tag_name /= None THEN Some(strip(Val(last_tag_name))) ELSE None]

\* Lines 153-162: the pagination callback of oci_tag_paginate.
oci_callback(limit, endpoint, results, has_more, headers) ==
    IF ~has_more THEN headers
    ELSE [headers EXCEPT !.Link =
            Some([url |-> link_url(endpoint),
                  query |-> [n |-> limit, last |-> results[Len(results)].name],
                  rel |-> "next"])]

(***************************************************************************)
(* Requests to the list endpoints.                                         *)
(***************************************************************************)
OptSeqs(S, n) == {None} \cup {Some(s) : s \in SeqsUpTo(S, n)}

TokenArgs == {None, Some(Garbage), Some(encrypt_page_token(<<>>)),
              Some(encrypt_page_token([start_id |-> 2]))}

LegacyTokenArgs == {None, Some(encrypt_page_token([start_id |-> 1]))}

CatalogRequests(nlen) ==
    [endpoint : {"_catalog"},
     args : [n : OptSeqs(NChars, nlen), next_page : TokenArgs, last : LegacyTokenArgs]]

TagRequests(nlen, namelen) ==
    [endpoint : {"tags"},
     args : [n : OptSeqs(NChars, nlen), last : OptSeqs(NameChars, namelen)]]

DefaultFeatures ==
    [RESTRICTED_USERS |-> FALSE, ANONYMOUS_ACCESS |-> TRUE,
     SUPERUSERS_FULL_ACCESS |-> FALSE, SUPER_USERS |-> FALSE]

PageConfigs == [V2_PAGINATION_SIZE : PageSizes, GLOBAL_READONLY_SUPER_USERS : {FALSE}]

NoFetch == [results |-> <<>>, has_more |-> FALSE]

InitList(requests) ==
    /\ features = DefaultFeatures
    /\ config \in PageConfigs
    /\ request \in requests
    /\ kwargs = NoKwargs
    /\ response = NoHeaders
    /\ fetched = NoFetch
    /\ pc = "idle"

\* The decorator parses the query and calls the handler.
Paginate ==
    /\ pc = "idle" /\ request.endpoint = "_catalog"
    /\ kwargs' = paginate(config, request.args)
    /\ pc' = "handler"
    /\ UNCHANGED <<features, config, request, response, fetched>>

OciTagPaginate ==
    /\ pc = "idle" /\ request.endpoint = "tags"
    /\ kwargs' = oci_tag_paginate(config, request.args)
    /\ pc' = "handler"
    /\ UNCHANGED <<features, config, request, response, fetched>>

Injective(s) == \A i, j \in 1..Len(s) : s[i] = s[j] => i = j

\* Rows the handler fetched: ids are primary keys, hence distinct.
CatalogResults ==
    {[i \in 1..Len(s) |-> [id |-> s[i]]] : s \in {t \in SeqsUpTo(1..MaxId, MaxResults) : Injective(t)}}

TagResults == {[i \in 1..Len(s) |-> [name |-> s[i]]] : s \in SeqsUpTo({"v1", "v2"}, 2)}

\* The handler calls pagination_callback(results, response).
PaginateCallback ==
    /\ pc = "handler" /\ request.endpoint = "_catalog"
    /\ \E results \in CatalogResults :
         /\ fetched' = [results |-> results, has_more |-> FALSE]
         /\ response' = callback(kwargs.limit, request.endpoint, results, response)
    /\ pc' = "done"
    /\ UNCHANGED <<features, config, request, kwargs>>

\* The handler calls pagination_callback(results, has_more, response); it
\* reports more tags only after a non-empty page.
OciCallback ==
    /\ pc = "handler" /\ request.endpoint = "tags"
    /\ \E results \in TagResults, has_more \in BOOLEAN :
         /\ has_more => results /= <<>>
         /\ fetched' = [results |-> results, has_more |-> has_more]
         /\ response' = oci_callback(kwargs.limit, request.endpoint, results, has_more, response)
    /\ pc' = "done"
    /\ UNCHANGED <<features, config, request, kwargs>>

\* Query parsing over the full range of n and last values.
InitParse == InitList(CatalogRequests(MaxLen) \cup TagRequests(MaxLen, MaxNameLen))

NextParse == Paginate \/ OciTagPaginate

SpecParse == InitParse /\ [][NextParse]_vars

\* A list request end to end, up to the pagination callback.
InitPage == InitList(CatalogRequests(MaxCbLen) \cup TagRequests(MaxCbLen, MaxCbLen))

NextPage == Paginate \/ PaginateCallback \/ OciTagPaginate \/ OciCallback

SpecPage == InitPage /\ [][NextPage]_vars

(***************************************************************************)
(* Properties of the permission check.                                     *)
(***************************************************************************)
Checked == pc = "checked"

RepositoryLabel == request.namespace_name \o "/" \o request.repo_name

PolicyActive == features.RESTRICTED_USERS /\ request.disallow_for_restricted_users

CallerHasUser == request.context /= None /\ request.context[1].authed_user /= None

CallerUser == request.context[1].authed_user[1]

RestrictedOwnNamespace ==
    /\ CallerHasUser
    /\ CallerUser.username = request.namespace_name
    /\ CallerUser.is_restricted_user
    /\ ~CallerUser.is_superuser

SuperuserOverrides ==
    /\ features.SUPERUSERS_FULL_ACCESS /\ request.allow_for_superuser
    /\ CallerHasUser /\ CallerUser.is_superuser

RepoFound == request.repository_ref /= None

Repo == request.repository_ref[1]

\* C1: a caller who is not a restricted non-superuser on their own namespace
\* and who holds the direct scope-based permission is always allowed.
C1_ScopeGrantAllows ==
    (Checked /\ ~RestrictedOwnNamespace /\ request.can) => kwargs.kind = "allow"

\* C2: every Unauthorized denial carries the label namespace/repo and the
\* scopes of the requested level (pull for read, pull+push for write/admin).
C2_UnauthorizedCarriesLabelAndScopes ==
    (Checked /\ kwargs.kind = "Unauthorized") =>
        /\ kwargs.repository = Some(RepositoryLabel)
        /\ kwargs.scopes = Some(IF request.level = "read" THEN <<"pull">>
                                ELSE <<"pull", "push">>)

\* C3 (as stated): with allow_public, an existing public repository whose
\* kind is not image always ends in Unsupported, for every caller and flag.
C3_PublicNonImageAlwaysUnsupported ==
    (Checked /\ request.level = "read" /\ RepoFound /\ Repo.is_public
        /\ Repo.kind /= "image") => kwargs.kind = "Unsupported"

\* C3 (amended): with allow_public, on an existing public repository whose
\* kind is not image, a check that reaches the public-fallback step (the
\* restricted-users block is not entered, no direct scope grant, no superuser
\* override) ends in Unsupported with a message naming the kind, for every
\* setting of the anonymous-access and global-readonly flags.
C3_FallbackNonImageUnsupported ==
    (Checked /\ request.level = "read" /\ RepoFound /\ Repo.is_public
        /\ Repo.kind /= "image"
        /\ ~PolicyActive /\ ~request.can /\ ~SuperuserOverrides) =>
        /\ kwargs.kind = "Unsupported"
        /\ kwargs.detail = Some("This repository is for managing " \o Repo.kind
                                \o " and not container images.")

C3_Witness ==
    /\ Checked /\ request.level = "read" /\ RepoFound /\ Repo.is_public
    /\ Repo.kind = "application" /\ ~PolicyActive /\ ~request.can
    /\ ~SuperuserOverrides /\ ~features.ANONYMOUS_ACCESS
    /\ kwargs.kind = "Unsupported"

\* C4: with the restricted-users feature on and disallow_for_restricted_users
\* set, a restricted non-superuser on their own namespace is denied on a
\* private repository at every level, whatever permission.can() answers.
C4_RestrictedOwnNamespaceDenied ==
    (Checked /\ PolicyActive /\ RestrictedOwnNamespace /\ RepoFound /\ ~Repo.is_public)
        => kwargs.kind = "Unauthorized"

C4_Witness ==
    /\ Checked /\ PolicyActive /\ RestrictedOwnNamespace /\ RepoFound /\ ~Repo.is_public
    /\ request.level = "admin" /\ request.can
    /\ kwargs.kind = "Unauthorized"
    /\ kwargs.detail = Some("Disallowed for restricted users.")

Anonymous == ~CallerHasUser /\ ~request.can

\* C5 (as stated): an anonymous read of an existing public repository is
\* allowed when anonymous access is enabled and Unauthorized when it is not.
C5_AnonymousPublicRead ==
    (Checked /\ request.level = "read" /\ Anonymous /\ RepoFound /\ Repo.is_public) =>
        /\ features.ANONYMOUS_ACCESS => kwargs.kind = "allow"
        /\ ~features.ANONYMOUS_ACCESS => kwargs.kind = "Unauthorized"

\* C5 (amended): an anonymous read of an existing public repository of kind
\* image is allowed when anonymous access is enabled and Unauthorized when it
\* is disabled, whatever the other flags and call options are.
C5_AnonymousPublicImageRead ==
    (Checked /\ request.level = "read" /\ Anonymous /\ RepoFound /\ Repo.is_public
        /\ Repo.kind = "image") =>
        /\ features.ANONYMOUS_ACCESS => kwargs.kind = "allow"
        /\ ~features.ANONYMOUS_ACCESS => kwargs.kind = "Unauthorized"

C5_Witness ==
    /\ Checked /\ request.level = "read" /\ Anonymous /\ RepoFound /\ Repo.is_public
    /\ Repo.kind = "image" /\ ~PolicyActive /\ features.ANONYMOUS_ACCESS
    /\ kwargs.kind = "allow"

\* C10: in the public-fallback step, on a found public image repository, a
\* caller flagged global-readonly-superuser is allowed when that mode is
\* enabled, for every setting of the anonymous-access flag.
C10_GlobalReadonlySuperuserAllowed ==
    (Checked /\ request.level = "read" /\ ~PolicyActive /\ ~request.can
        /\ ~SuperuserOverrides /\ RepoFound /\ Repo.is_public /\ Repo.kind = "image"
        /\ features.SUPER_USERS /\ config.GLOBAL_READONLY_SUPER_USERS
        /\ CallerHasUser /\ CallerUser.is_global_readonly_superuser)
        => kwargs.kind = "allow"

(***************************************************************************)
(* Properties of the pagination decorators.                                *)
(***************************************************************************)
InHandler == pc \in {"handler", "done"}

MaxPage == MAX_RESULTS_PER_PAGE(config)

ArgN == request.args.n

\* C6: the limit handed to the handler is always in [1, MAX_PAGE_SIZE], with
\* MAX_PAGE_SIZE >= 100: n=0 gives 1, n=MAX_PAGE_SIZE+500 gives MAX_PAGE_SIZE,
\* an absent n gives MAX_PAGE_SIZE, and in paginate a non-numeric n gives 1.
C6_LimitClamped ==
    InHandler =>
        /\ MaxPage >= 100
        /\ kwargs.limit \in 1..MaxPage
        /\ ArgN = Some(<<"0">>) => kwargs.limit = 1
        /\ (MaxPage = 100 /\ ArgN = Some(<<"6", "0", "0">>)) => kwargs.limit = 100
        /\ (MaxPage = 160 /\ ArgN = Some(<<"6", "6", "0">>)) => kwargs.limit = 160
        /\ ArgN = None => kwargs.limit = MaxPage
        /\ (request.endpoint = "_catalog" /\ ArgN /= None /\ int(ArgN[1]) = None)
              => kwargs.limit = 1

C6_Witness ==
    /\ InHandler /\ request.endpoint = "_catalog" /\ MaxPage = 160
    /\ ArgN = Some(<<"-", "x">>) /\ kwargs.limit = 1

Fetched == fetched.results

PageMaxId(k) == CHOOSE m \in {Fetched[i].id : i \in 1..k} :
                    \A i \in 1..k : Fetched[i].id <= m

LinkToken == response.Link[1].query.next_page

CatalogDone == pc = "done" /\ request.endpoint = "_catalog"

\* C7 (as stated): with limit+1 results the Link header carries n=limit and a
\* token that decodes to the maximum id among the first limit results; with at
\* most limit results the response headers are unchanged.
C7_TokenFromReturnedPage ==
    CatalogDone =>
        /\ Len(Fetched) = kwargs.limit + 1 =>
              /\ response.Link /= None
              /\ response.Link[1].rel = "next"
              /\ response.Link[1].query.n = kwargs.limit
              /\ decrypt_page_token(Some(LinkToken))
                    = Some([start_id |-> PageMaxId(kwargs.limit)])
        /\ Len(Fetched) <= kwargs.limit => response = NoHeaders

\* C7 (amended): with more than limit results the Link rel="next" header
\* carries n=limit and a token that decodes to the maximum id among all the
\* results passed to the callback, the over-fetched item included; with at
\* most limit results the response headers are unchanged.
C7_TokenFromAllResults ==
    CatalogDone =>
        /\ Len(Fetched) > kwargs.limit =>
              /\ response.Link /= None
              /\ response.Link[1].rel = "next"
              /\ response.Link[1].query.n = kwargs.limit
              /\ decrypt_page_token(Some(LinkToken))
                    = Some([start_id |-> PageMaxId(Len(Fetched))])
        /\ Len(Fetched) <= kwargs.limit => response = NoHeaders

C7_Witness ==
    /\ CatalogDone /\ kwargs.limit = 1
    /\ Fetched = <<[id |-> 1], [id |-> 2]>>
    /\ response.Link /= None
    /\ LinkToken = encrypt_page_token([start_id |-> 2])

TagsHandler == InHandler /\ request.endpoint = "tags"

\* C8: the name cursor handed to the handler is absent or a non-empty string
\* without leading or trailing whitespace.
C8_NameCursorNormalized ==
    TagsHandler =>
        \/ kwargs.last_pagination_tag_name = None
        \/ LET name == kwargs.last_pagination_tag_name[1] IN
           /\ name /= <<>>
           /\ name[1] /= " "
           /\ name[Len(name)] /= " "

\* C9: when n is present but not an integer, the handler receives
\* limit = MAX_PAGE_SIZE and an absent name cursor, even when the request
\* also carried a valid non-empty last value.
C9_ParseErrorDropsBoth ==
    (TagsHandler /\ ArgN /= None /\ int(ArgN[1]) = None
        /\ request.args.last /= None /\ request.args.last[1] = <<"a">>) =>
        /\ kwargs.limit = MaxPage
        /\ kwargs.last_pagination_tag_name = None

====
